---- MODULE Spec2Model ----
(***************************************************************************)
(* Model of src/demo.py: one run of main(), which reads an image, obtains  *)
(* its text from the synchronous OCR endpoint (azure_read_imageanalysis)   *)
(* or, as a fallback, from the polled Read v3.2 job (azure_read_v32),      *)
(* writes <stem>.raw.txt, optionally cleans the text (openai_cleanup) and  *)
(* writes <stem>.clean.md.                                                 *)
(*                                                                         *)
(* A Python str is the sequence of its Unicode code points (ord of each    *)
(* character); None is the distinguished value None below.  Remote         *)
(* services are the environment: each call draws its response from a       *)
(* small set.                                                              *)
(***************************************************************************)
EXTENDS Integers, Sequences, FiniteSets, TLC

\* ------------------------------------------------------------------------
\* Bounds of the model
\* ------------------------------------------------------------------------
\* pages (readResults[]) or blocks (blocks[]) in one OCR response
MaxPages == 2
\* recognized lines in one OCR response, all pages together
MaxLines == 2

\* ------------------------------------------------------------------------
\* Program constants
\* ------------------------------------------------------------------------
\* for _ in range(60)
MaxPolls == 60

\* ------------------------------------------------------------------------
\* Python values
\* ------------------------------------------------------------------------
\* "\n"
NL == 10
\* None: a one-element sequence no str equals (no code point exceeds U+10FFFF)
None == <<1114112>>
\* the code points str.strip() removes (those with str.isspace()): \t \n \v
\* \f \r, U+001C..U+001F, space, U+0085, U+00A0, U+1680, U+2000..U+200A,
\* U+2028, U+2029, U+202F, U+205F, U+3000
Whitespace ==
    {9, 10, 11, 12, 13, 28, 29, 30, 31, 32, 133, 160, 5760}
    \cup (8192..8202)
    \cup {8232, 8233, 8239, 8287, 12288}

\* bool(x) for x a str or None
Truthy(x) == x # None /\ x # <<>>

RECURSIVE lstrip(_)
lstrip(s) == IF s # <<>> /\ Head(s) \in Whitespace THEN lstrip(Tail(s)) ELSE s

RECURSIVE rstrip(_)
rstrip(s) ==
    IF s # <<>> /\ s[Len(s)] \in Whitespace
    THEN rstrip(SubSeq(s, 1, Len(s) - 1))
    ELSE s

\* str.strip()
strip(s) == rstrip(lstrip(s))

\* "\n".join(lines)
RECURSIVE JoinNL(_)
JoinNL(lines) ==
    IF lines = <<>> THEN <<>>
    ELSE IF Len(lines) = 1 THEN lines[1]
    ELSE lines[1] \o <<NL>> \o JoinNL(Tail(lines))

\* str.lower() on the status strings the service is modelled to send
Lower(s) ==
    CASE s = "Succeeded" -> "succeeded"
      [] s = "FAILED" -> "failed"
      [] s = "notStarted" -> "notstarted"
      [] OTHER -> s

\* the lines of all pages (or blocks), in document order
RECURSIVE AllLines(_)
AllLines(pages) ==
    IF pages = <<>> THEN <<>> ELSE Head(pages) \o AllLines(Tail(pages))

\* ------------------------------------------------------------------------
\* Input domains
\* ------------------------------------------------------------------------
SeqsUpTo(S, n) == UNION {[1..k -> S] : k \in 0..n}

\* line["text"] of a recognized line
\* "", "a", " b"
LineTexts == {<<>>, <<97>>, <<32, 98>>}

\* readResults[] of a Read v3.2 result, blocks[] of an Image Analysis result:
\* a list of pages (blocks), each a list of line texts
\* the last one is a single line whose text is a lone surrogate, "\ud83d"
\* (a JSON body may carry the escape on its own)
PageLists ==
    {ps \in SeqsUpTo(SeqsUpTo(LineTexts, MaxLines), MaxPages) :
        Len(AllLines(ps)) <= MaxLines}
    \cup {<< << <<55357>> >> >>}

\* readResult["content"] of an Image Analysis result
\* None, "", "\r" U+2003, U+00E9 (e acute), U+00A0 "a\r\nb" U+0085 "\n",
\* "a" and a lone surrogate "\ud800"
ContentVals ==
    {None, <<>>, <<13, 8195>>, <<233>>, <<160, 97, 13, NL, 98, 133, NL>>,
     <<97, 55296>>}

\* contents of the image file; "<missing>" is a path with no file
ImageFiles == {"<missing>", "img1", "img2"}

\* os.environ's OPENAI_API_KEY
EnvKeys == {"<unset>", "", "sk-key"}

\* ------------------------------------------------------------------------
\* Responses of the remote services
\* ------------------------------------------------------------------------
\* requests.post of azure_read_imageanalysis.  kind: "ConnectionError" when
\* requests.post itself raises (transport failure or timeout), "http_error"
\* for a 4xx/5xx status, "bad_json" for a body r.json() cannot decode,
\* "bad_shape" for JSON that is not an object, "ok" for a JSON object.
SyncResp(k, h, c, b) ==
    [kind |-> k, hasReadResult |-> h, content |-> c, blocks |-> b]

NoSyncResp == SyncResp("none", FALSE, None, <<>>)

SyncResponses ==
    {SyncResp(k, FALSE, None, <<>>) :
        k \in {"ConnectionError", "http_error", "bad_json", "bad_shape", "ok"}}
    \cup {SyncResp("ok", TRUE, c, b) : c \in ContentVals, b \in PageLists}

\* requests.post of azure_read_v32: the Operation-Location header
SubmitResp(k, loc) == [kind |-> k, opLoc |-> loc]

\* Operation-Location values: absent, "", "http://u", "u", "ftp://u",
\* "http://", "httpx://u", "http:u", "http://*u", "ftp://[", "http://[::1"
OpLocs ==
    {None, <<>>,
     <<104, 116, 116, 112, 58, 47, 47, 117>>,
     <<117>>,
     <<102, 116, 112, 58, 47, 47, 117>>,
     <<104, 116, 116, 112, 58, 47, 47>>,
     <<104, 116, 116, 112, 120, 58, 47, 47, 117>>,
     <<104, 116, 116, 112, 58, 117>>,
     <<104, 116, 116, 112, 58, 47, 47, 42, 117>>,
     <<102, 116, 112, 58, 47, 47, 91>>,
     <<104, 116, 116, 112, 58, 47, 47, 91, 58, 58, 49>>}

SubmitResponses ==
    {SubmitResp(k, None) : k \in {"ConnectionError", "http_error"}}
    \cup {SubmitResp("ok", loc) : loc \in OpLocs}

\* requests.get of azure_read_v32: status and analyzeResult.readResults
PollResp(k, st, rr) == [kind |-> k, status |-> st, readResults |-> rr]

NoPollResp == PollResp("none", "<None>", <<>>)

PollStatuses ==
    {"<None>", "running", "notStarted", "succeeded", "Succeeded", "failed", "FAILED"}

\* kind: "ConnectionError" when the GET fails in transport or times out,
\* "http_error" for a 4xx/5xx status, "bad_json" for a body poll.json()
\* cannot decode, "bad_shape" for JSON that is not an object, "ok" for a
\* JSON object
PollResponses ==
    {PollResp(k, "<None>", <<>>) :
        k \in {"ConnectionError", "http_error", "bad_json", "bad_shape"}}
    \cup {PollResp("ok", st, <<>>) : st \in PollStatuses}
    \cup {PollResp("ok", "succeeded", rr) : rr \in PageLists}

\* client.responses.create of openai_cleanup: output_text ("", "#a", " a\n",
\* a lone surrogate "\ud83d" and "\n"), or an error
CleanupResponses ==
    {[kind |-> "OpenAIError", text |-> <<>>]}
    \cup {[kind |-> "ok", text |-> t] :
            t \in {<<>>, <<35, 97>>, <<32, 97, NL>>, <<55357, NL>>}}

\* ------------------------------------------------------------------------
\* Pure parts of the functions
\* ------------------------------------------------------------------------
\* the inner loops: the truthy line texts of every page (block), in order
RECURSIVE CollectLines(_)
CollectLines(pages) ==
    IF pages = <<>> THEN <<>>
    ELSE SelectSeq(Head(pages), Truthy) \o CollectLines(Tail(pages))

\* read_result = data.get("readResult") or {}
ReadResultOf(data) ==
    IF data.hasReadResult
    THEN [content |-> data.content, blocks |-> data.blocks]
    ELSE [content |-> None, blocks |-> <<>>]

\* variant: the consolidated text returned as received, not trimmed
ImageAnalysisText_Untrimmed(data) ==
    LET read_result == ReadResultOf(data)
        content == read_result.content
    IN  IF Truthy(content)
        THEN content
        ELSE strip(JoinNL(CollectLines(read_result.blocks)))

\* azure_read_imageanalysis after r.json(): the returned text
ImageAnalysisText(data) ==
    LET read_result == ReadResultOf(data)
        content == read_result.content
    IN  IF Truthy(content)
        THEN strip(content)
        ELSE strip(JoinNL(CollectLines(read_result.blocks)))

\* the exception azure_read_imageanalysis raises on a response, or "none"
ImageAnalysisRaises(r) ==
    CASE r.kind = "http_error" -> "HTTPError"
      [] r.kind = "bad_json" -> "JSONDecodeError"
      [] r.kind = "bad_shape" -> "AttributeError"
      [] OTHER -> "none"

\* variant: "except requests.RequestException"
CaughtByOrchestrator_RequestException(exc) ==
    exc \in {"HTTPError", "ConnectionError", "JSONDecodeError"}

\* except requests.HTTPError: which exceptions the orchestrator swallows
CaughtByOrchestrator(exc) == exc = "HTTPError"

\* variant: "return text" without the test
OrchestratorReturns_Always(text) == TRUE

\* if text: return text
OrchestratorReturns(text) == Truthy(text)

\* status = (result.get("status") or "").lower()
StatusOf(result) ==
    Lower(IF result.status = "<None>" THEN "" ELSE result.status)

IsSucceeded(status) == status = "succeeded"

\* variant: the loop without its "failed" branch
IsFailed_Never(status) == FALSE

IsFailed(status) == status = "failed"

\* variant: the joined lines returned without .strip()
ReadV32Text_Untrimmed(result) == JoinNL(CollectLines(result.readResults))

\* azure_read_v32 on a succeeded result: the returned text
ReadV32Text(result) == strip(JoinNL(CollectLines(result.readResults)))

\* s.startswith(p)
StartsWith(s, p) == Len(s) >= Len(p) /\ SubSeq(s, 1, Len(p)) = p

\* url.lower(), on the letters A-Z
LowerUrl(url) ==
    [i \in 1..Len(url) |-> IF url[i] \in 65..90 THEN url[i] + 32 ELSE url[i]]

\* the characters of s
Range(s) == {s[i] : i \in 1..Len(s)}

\* s[:n] and s[n:]
Take(s, n) == SubSeq(s, 1, n)
Drop(s, n) == SubSeq(s, n + 1, Len(s))

\* s.find: the index of the first character of s that is in C, or Len(s) + 1
FirstIn(s, C) ==
    LET I == {i \in 1..Len(s) : s[i] \in C}
    IN  IF I = {} THEN Len(s) + 1 ELSE CHOOSE i \in I : \A j \in I : i <= j

\* the length of the longest prefix of s made of characters of C
PrefixLen(s, C) ==
    LET I == {i \in 1..Len(s) : s[i] \notin C}
    IN  IF I = {} THEN Len(s) ELSE (CHOOSE i \in I : \A j \in I : i <= j) - 1

\* s.rfind(c): the index of the last c in s, or 0
LastOf(s, c) ==
    LET I == {i \in 1..Len(s) : s[i] = c}
    IN  IF I = {} THEN 0 ELSE CHOOSE i \in I : \A j \in I : i >= j

\* s.split(c)
RECURSIVE Split(_, _)
Split(s, c) ==
    LET k == FirstIn(s, {c})
    IN  IF k > Len(s) THEN <<s>> ELSE <<Take(s, k - 1)>> \o Split(Drop(s, k), c)

Letters == (65..90) \cup (97..122)
Digits == 48..57
HexDigits == Digits \cup (65..70) \cup (97..102)

AllIn(s, C) == \A i \in 1..Len(s) : s[i] \in C
NonAscii(s) == \E i \in 1..Len(s) : s[i] >= 128
HasBracket(s) == \E i \in 1..Len(s) : s[i] \in {91, 93}
HasSurrogate(s) == \E i \in 1..Len(s) : s[i] \in 55296..57343

\* urllib3 SCHEME_RE, [a-zA-Z][a-zA-Z0-9+-]*: at the start of the URL: the
\* length of the scheme, or 0
SchemeLen(u) ==
    IF u = <<>> \/ u[1] \notin Letters
    THEN 0
    ELSE LET n == PrefixLen(u, Letters \cup Digits \cup {43, 45})
         IN  IF n < Len(u) /\ u[n + 1] = 58 THEN n ELSE 0

\* urllib3 HEX_PAT: one to four hexadecimal digits
H16(g) == Len(g) \in 1..4 /\ AllIn(g, HexDigits)

\* urllib3 IPV4_PAT: four groups of one to three digits
IPv4(s) ==
    LET p == Split(s, 46)
    IN  Len(p) = 4 /\ \A i \in 1..4 : Len(p[i]) \in 1..3 /\ AllIn(p[i], Digits)

\* the 16-bit units of a list of hexadecimal groups separated by ":", whose
\* last two may be written as an IPv4 address when allow4; -1 when s is no
\* such list; the empty list has 0
Groups(s, allow4) ==
    IF s = <<>>
    THEN 0
    ELSE LET g == Split(s, 58)
             n == Len(g)
         IN  IF allow4 /\ IPv4(g[n])
             THEN IF \A i \in 1..(n - 1) : H16(g[i]) THEN n + 1 ELSE -1
             ELSE IF \A i \in 1..n : H16(g[i]) THEN n ELSE -1

\* urllib3 IPV6_PAT: eight units, or at most seven around one "::"
IPv6(s) ==
    LET I == {i \in 1..(Len(s) - 1) : s[i] = 58 /\ s[i + 1] = 58}
    IN  IF I = {}
        THEN Groups(s, TRUE) = 8
        ELSE LET k == CHOOSE i \in I : \A j \in I : i <= j
                 l == Groups(Take(s, k - 1), FALSE)
                 rt == Groups(Drop(s, k + 1), TRUE)
             IN  l >= 0 /\ rt >= 0 /\ l + rt <= 7

\* the characters of a zone id: unreserved ones and %HH
RECURSIVE ZoneBody(_)
ZoneBody(b) ==
    IF b = <<>>
    THEN TRUE
    ELSE IF b[1] \in Letters \cup Digits \cup {46, 95, 45, 126}
    THEN ZoneBody(Tail(b))
    ELSE /\ b[1] = 37
         /\ Len(b) >= 3
         /\ b[2] \in HexDigits
         /\ b[3] \in HexDigits
         /\ ZoneBody(Drop(b, 3))

\* urllib3 ZONE_ID_PAT: "%25" or "%", then one or more zone characters
ZoneId(z) ==
    /\ z # <<>>
    /\ z[1] = 37
    /\ \/ Len(z) > 1 /\ ZoneBody(Drop(z, 1))
       \/ Len(z) > 3 /\ Take(z, 3) = <<37, 50, 53>> /\ ZoneBody(Drop(z, 3))

\* urllib3 IPV6_ADDRZ_PAT: "[", an IPv6 address, a zone id or none, "]"
IPv6Addrz(h) ==
    /\ Len(h) >= 2
    /\ h[1] = 91
    /\ h[Len(h)] = 93
    /\ LET inner == SubSeq(h, 2, Len(h) - 1)
           k == FirstIn(inner, {37})
       IN  IPv6(Take(inner, k - 1)) /\ (k > Len(inner) \/ ZoneId(Drop(inner, k - 1)))

\* urllib3 REG_NAME_PAT: no [ ] : / ? #, and each "%" before two hex digits
RegName(h) ==
    \A i \in 1..Len(h) :
        /\ h[i] \notin {91, 93, 58, 47, 63, 35}
        /\ h[i] = 37 =>
              (i + 2 <= Len(h) /\ h[i + 1] \in HexDigits /\ h[i + 2] \in HexDigits)

\* int(t) of a string of digits
RECURSIVE Decimal(_)
Decimal(t) ==
    IF t = <<>> THEN 0 ELSE 10 * Decimal(Take(t, Len(t) - 1)) + (t[Len(t)] - 48)

\* the port of _HOST_PORT_RE and its range: digits, at most five after the
\* leading zeros, at most 65535
PortOK(t) ==
    /\ AllIn(t, Digits)
    /\ LET d == Drop(t, PrefixLen(t, {48}))
       IN  Len(d) <= 5 /\ Decimal(d) <= 65535

\* what _HOST_PORT_RE lets follow the host: nothing or ":port", and then,
\* as "$" also matches before a final newline, possibly one "\n"
PortTail(t) == t = <<>> \/ (t[1] = 58 /\ PortOK(Tail(t)))

TailOK(t) ==
    \/ PortTail(t)
    \/ t # <<>> /\ t[Len(t)] = NL /\ PortTail(Take(t, Len(t) - 1))

\* the host _HOST_PORT_RE finds in "host:port", or None when it does not
\* match
HostOf(hp) ==
    IF hp # <<>> /\ hp[1] = 91
    THEN LET k == FirstIn(hp, {93})
         IN  IF k <= Len(hp) /\ IPv6Addrz(Take(hp, k)) /\ TailOK(Drop(hp, k))
             THEN Take(hp, k)
             ELSE None
    ELSE LET k == FirstIn(hp, {58})
             h == Take(hp, k - 1)
         IN  IF RegName(h) /\ (k > Len(hp) \/ TailOK(Drop(hp, k - 1)))
             THEN h
             ELSE None

\* the exceptions of the steps between prepare_url and get_adapter, which
\* depend on the URL through code not modelled here: urllib.parse and
\* ipaddress on a bracketed host with an IPv4 part or a zone id, on a URL
\* left unprepared or unnormalized with brackets or non-ASCII characters
\* (ValueError); the Basic auth header made from user info with escapes or
\* non-ASCII characters, and the quoting of a lone surrogate
\* (UnicodeEncodeError)
LaterRaises(u, auth, host, normal) ==
    (IF \/ normal /\ host # <<>> /\ host[1] = 91 /\ (46 \in Range(host) \/ 37 \in Range(host))
        \/ ~normal /\ (HasBracket(u) \/ NonAscii(u))
     THEN {"ValueError"} ELSE {})
    \cup
    (IF \/ auth # <<>> /\ (37 \in Range(auth) \/ NonAscii(auth))
        \/ ~normal /\ HasSurrogate(u)
     THEN {"UnicodeEncodeError"} ELSE {})

\* requests.get(op_loc, ...): the exceptions requests can raise for the URL
\* before anything is sent, "none" when it sends the GET.  One outcome for
\* a URL of ASCII characters without the forms LaterRaises names; for a
\* host with non-ASCII characters InvalidURL is added, raised when the IDNA
\* encoding refuses a label.
\* prepare_url: url.lstrip(); a URL with ":" that does not start with "http"
\* is left unprepared and has no connection adapter (InvalidSchema);
\* otherwise urllib3's parse_url (InvalidURL when the authority does not
\* parse), then MissingSchema without a scheme, InvalidURL without a host or
\* with a host that starts with "*" or ".", and InvalidSchema for a scheme
\* other than http and https.
PollRequestRaises(url) ==
    LET u == lstrip(url)
        n == SchemeLen(u)
        u2 == IF n > 0 \/ (u # <<>> /\ u[1] = 47) THEN u ELSE <<47, 47>> \o u
        scheme == LowerUrl(Take(u2, n))
        rest == IF n > 0 THEN Drop(u2, n + 1) ELSE u2
        afterSlashes == Drop(rest, 2)
        authority ==
            IF StartsWith(rest, <<47, 47>>)
            THEN Take(afterSlashes, FirstIn(afterSlashes, {92, 47, 63, 35}) - 1)
            ELSE <<>>
        at == LastOf(authority, 64)
        auth == Take(authority, IF at = 0 THEN 0 ELSE at - 1)
        host == HostOf(Drop(authority, at))
        idna == IF NonAscii(host) THEN {"InvalidURL"} ELSE {}
        normal == scheme \in {<<104, 116, 116, 112>>, <<104, 116, 116, 112, 115>>}
    IN  IF 58 \in Range(u) /\ ~StartsWith(LowerUrl(u), <<104, 116, 116, 112>>)
        THEN {"InvalidSchema"}
                 \cup LaterRaises(u, IF 64 \in Range(u) THEN u ELSE <<>>, <<>>, FALSE)
        ELSE IF u = <<>>
        THEN {"MissingSchema"}
        ELSE IF authority = <<>>
        THEN IF scheme = <<>> THEN {"MissingSchema"} ELSE {"InvalidURL"}
        ELSE IF host = None
        THEN {"InvalidURL"}
        ELSE IF scheme = <<>>
        THEN {"MissingSchema"} \cup idna
        ELSE IF host = <<>> \/ host[1] \in {42, 46}
        THEN {"InvalidURL"}
        ELSE {IF normal THEN "none" ELSE "InvalidSchema"}
                 \cup idna \cup LaterRaises(u, auth, host, normal)

\* requests.get's answer for each Operation-Location the loop can hold
PollRefusals == [loc \in OpLocs \ {None, <<>>} |-> PollRequestRaises(loc)]

\* variant: "if op_loc is None"
MissingOpLoc_NoneOnly(op_loc) == op_loc = None

\* if not op_loc
MissingOpLoc(op_loc) == ~Truthy(op_loc)

\* variant: one iteration too many
LoopContinues_OffByOne(n) == n <= MaxPolls

\* for _ in range(60): the loop takes another iteration
LoopContinues(n) == n < MaxPolls

\* OPENAI_API_KEY = os.environ.get("OPENAI_API_KEY", "")
OPENAI_API_KEY(env) == IF env = "<unset>" THEN "" ELSE env

\* variant: openai_cleanup without its early return
CleanupDisabled_Never(key) == FALSE

\* if not OPENAI_API_KEY: return raw_text
CleanupDisabled(key) == key = ""

\* variant: main without the --no-clean return
SkipsCleanup_Never(no_clean) == FALSE

\* if args.no_clean: return
SkipsCleanup(no_clean) == no_clean

\* variant: the text is not written
WriteText_Dropped(files, name, text) == files

\* text.encode("utf-8") succeeds: no lone surrogate in the text
Encodable(text) == \A i \in 1..Len(text) : text[i] \notin 55296..57343

\* Path.write_text(text, encoding="utf-8"): the exception it raises, or "none"
WriteTextRaises(text) == IF Encodable(text) THEN "none" ELSE "UnicodeEncodeError"

\* Path.write_text: the files this run has written, name -> text.  The file
\* is opened, and so created or emptied, before the text is encoded: a text
\* that cannot be encoded leaves it empty
WriteText(files, name, text) ==
    [n \in (DOMAIN files) \cup {name} |->
        IF n = name THEN (IF Encodable(text) THEN text ELSE <<>>) ELSE files[n]]

NoFiles == [n \in {} |-> <<>>]

\* ------------------------------------------------------------------------
\* State
\* ------------------------------------------------------------------------
VARIABLES
    pc,            \* position of the run
    image_file,    \* input: contents of the file at args.image
    no_clean,      \* input: args.no_clean
    env_key,       \* input: the environment's OPENAI_API_KEY
    image_bytes,   \* azure_handwriting_ocr: image_bytes
    r,             \* azure_read_imageanalysis: the response r
    sync_posts,    \* data of each POST of azure_read_imageanalysis
    sync_result,   \* how the synchronous call ended: "returned" or its exception
    sync_text,     \* the text the synchronous call returned
    sync_content,  \* readResult.content of the synchronous response
    v32_posts,     \* data of each POST of azure_read_v32
    submitted,     \* kind of the submission response
    op_loc,        \* azure_read_v32: op_loc
    polls,         \* GETs of the Operation-Location sent so far
    sleeps,        \* time.sleep(0.5) calls so far: iterations of the loop begun
    result,        \* azure_read_v32: result of the current poll
    waited,        \* polls answered with a status other than succeeded or failed
    term_at,       \* number of the first poll answered succeeded or failed, or 0
    term_status,   \* the status of that poll
    v32_result,    \* how azure_read_v32 ended
    raw_text,      \* main: raw_text
    cleaned,       \* main: cleaned
    cleanup_calls, \* calls of openai_cleanup
    openai_calls,  \* client.responses.create calls
    written,       \* files written by this run, name -> text
    stdout,        \* lines printed
    err            \* the uncaught exception that ended the run

vars ==
    <<pc, image_file, no_clean, env_key, image_bytes, r, sync_posts,
      sync_result, sync_text, sync_content, v32_posts, submitted, op_loc,
      polls, sleeps, result, waited, term_at, term_status, v32_result,
      raw_text, cleaned, cleanup_calls, openai_calls, written, stdout, err>>

inputs == <<image_file, no_clean, env_key>>
syncVars == <<r, sync_posts, sync_result, sync_text, sync_content>>
pollHist == <<waited, term_at, term_status>>
v32Vars == <<v32_posts, submitted, op_loc, polls, sleeps, result, pollHist, v32_result>>
cleanVars == <<cleaned, cleanup_calls, openai_calls>>
outVars == <<written, stdout>>

RawName == "stem.raw.txt"
CleanName == "stem.clean.md"

Init ==
    /\ pc = "main"
    /\ image_file \in ImageFiles
    /\ no_clean \in BOOLEAN
    /\ env_key \in EnvKeys
    /\ image_bytes = ""
    /\ r = NoSyncResp
    /\ sync_posts = <<>>
    /\ sync_result = "none"
    /\ sync_text = None
    /\ sync_content = None
    /\ v32_posts = <<>>
    /\ submitted = "none"
    /\ op_loc = None
    /\ polls = 0
    /\ sleeps = 0
    /\ result = NoPollResp
    /\ waited = 0
    /\ term_at = 0
    /\ term_status = ""
    /\ v32_result = "none"
    /\ raw_text = None
    /\ cleaned = None
    /\ cleanup_calls = 0
    /\ openai_calls = 0
    /\ written = NoFiles
    /\ stdout = <<>>
    /\ err = "none"

\* an exception reaches the top level: the process ends
Raise(exc) == pc' = "error" /\ err' = exc

\* ------------------------------------------------------------------------
\* main, up to the call of azure_handwriting_ocr
\* ------------------------------------------------------------------------
\* parse_args, resolve, outdir.mkdir; azure_handwriting_ocr: read_bytes
ReadImage ==
    /\ pc = "main"
    /\ IF image_file = "<missing>"
       THEN /\ Raise("FileNotFoundError")
            /\ UNCHANGED image_bytes
       ELSE /\ image_bytes' = image_file
            /\ pc' = "sync_post"
            /\ UNCHANGED err
    /\ UNCHANGED <<inputs, syncVars, v32Vars, raw_text, cleanVars, outVars>>

\* ------------------------------------------------------------------------
\* azure_read_imageanalysis
\* ------------------------------------------------------------------------
\* an exception leaves azure_read_imageanalysis inside the orchestrator's
\* try: "except requests.HTTPError: pass" goes on to azure_read_v32, any
\* other exception leaves azure_handwriting_ocr and main
SyncRaises(exc) ==
    /\ sync_result' = exc
    /\ IF CaughtByOrchestrator(exc)
       THEN pc' = "v32_submit" /\ UNCHANGED err
       ELSE Raise(exc)

\* r = requests.post(url, ..., data=image_bytes, timeout=60)
SyncPost ==
    /\ pc = "sync_post"
    /\ sync_posts' = Append(sync_posts, image_bytes)
    /\ \E resp \in SyncResponses :
        IF resp.kind = "ConnectionError"
        THEN /\ SyncRaises("ConnectionError")
             /\ UNCHANGED r
        ELSE /\ r' = resp
             /\ pc' = "sync_resp"
             /\ UNCHANGED <<err, sync_result>>
    /\ UNCHANGED <<inputs, image_bytes, sync_text, sync_content, v32Vars,
                   raw_text, cleanVars, outVars>>

\* raise_for_status, r.json(), the parse, the return; then the orchestrator's
\* "if text: return text", else the fall through to azure_read_v32
SyncReturn ==
    /\ pc = "sync_resp"
    /\ r' = NoSyncResp
    /\ LET exc == ImageAnalysisRaises(r)
           text == ImageAnalysisText(r)
       IN  IF exc # "none"
           THEN /\ SyncRaises(exc)
                /\ UNCHANGED <<sync_text, sync_content, raw_text>>
           ELSE /\ sync_result' = "returned"
                /\ sync_text' = text
                /\ sync_content' = ReadResultOf(r).content
                /\ UNCHANGED err
                /\ IF OrchestratorReturns(text)
                   THEN /\ raw_text' = text
                        /\ pc' = "write_raw"
                   ELSE /\ pc' = "v32_submit"
                        /\ UNCHANGED raw_text
    /\ UNCHANGED <<inputs, image_bytes, sync_posts, v32Vars, cleanVars, outVars>>

\* ------------------------------------------------------------------------
\* azure_read_v32
\* ------------------------------------------------------------------------
\* an exception leaves azure_read_v32, azure_handwriting_ocr and main
V32Raises(exc) == Raise(exc) /\ v32_result' = exc

\* submit = requests.post(...); raise_for_status; the Operation-Location check
V32Submit ==
    /\ pc = "v32_submit"
    /\ v32_posts' = Append(v32_posts, image_bytes)
    /\ \E submit \in SubmitResponses :
        /\ submitted' = submit.kind
        /\ CASE submit.kind = "ConnectionError" ->
                    V32Raises("ConnectionError") /\ UNCHANGED op_loc
             [] submit.kind = "http_error" ->
                    V32Raises("HTTPError") /\ UNCHANGED op_loc
             [] OTHER ->
                    /\ op_loc' = submit.opLoc
                    /\ IF MissingOpLoc(submit.opLoc)
                       THEN V32Raises("RuntimeError: missing Operation-Location")
                       ELSE pc' = "v32_loop" /\ UNCHANGED <<err, v32_result>>
    /\ UNCHANGED <<inputs, image_bytes, syncVars, polls, sleeps, result,
                   pollHist, raw_text, cleanVars, outVars>>

\* the status a poll response carries, as the service states it
Terminal(poll) ==
    Lower(poll.status) \in {"succeeded", "failed"}

\* one iteration of the loop, up to result = poll.json(): the sleep, then
\* the GET, unless requests refuses the URL before sending anything
V32Poll ==
    /\ pc = "v32_loop"
    /\ LoopContinues(sleeps)
    /\ sleeps' = sleeps + 1
    /\ \E refused \in PollRefusals[op_loc] :
       IF refused # "none"
       THEN /\ V32Raises(refused)
            /\ UNCHANGED <<polls, result, pollHist>>
       ELSE /\ polls' = polls + 1
            /\ \E poll \in PollResponses :
                CASE poll.kind = "ConnectionError" ->
                        V32Raises("ConnectionError") /\ UNCHANGED <<result, pollHist>>
                  [] poll.kind = "http_error" ->
                        V32Raises("HTTPError") /\ UNCHANGED <<result, pollHist>>
                  [] poll.kind = "bad_json" ->
                        V32Raises("JSONDecodeError") /\ UNCHANGED <<result, pollHist>>
                  [] poll.kind = "bad_shape" ->
                        /\ result' = poll
                        /\ pc' = "v32_status"
                        /\ UNCHANGED <<err, v32_result, pollHist>>
                  [] OTHER ->
                        /\ result' = poll
                        /\ pc' = "v32_status"
                        /\ IF Terminal(poll)
                           THEN /\ term_at' = IF term_at = 0 THEN polls + 1 ELSE term_at
                                /\ term_status' =
                                       IF term_at = 0
                                       THEN Lower(poll.status)
                                       ELSE term_status
                                /\ UNCHANGED waited
                           ELSE /\ waited' = waited + 1
                                /\ UNCHANGED <<term_at, term_status>>
                        /\ UNCHANGED <<err, v32_result>>
    /\ UNCHANGED <<inputs, image_bytes, syncVars, v32_posts, submitted, op_loc,
                   raw_text, cleanVars, outVars>>

\* the rest of the iteration: result.get("status") and the branch on it
V32Status ==
    /\ pc = "v32_status"
    /\ result' = NoPollResp
    /\ IF result.kind = "bad_shape"
       THEN /\ V32Raises("AttributeError")
            /\ UNCHANGED raw_text
       ELSE LET status == StatusOf(result)
            IN  IF IsSucceeded(status)
                THEN /\ raw_text' = ReadV32Text(result)
                     /\ v32_result' = "returned"
                     /\ pc' = "write_raw"
                     /\ UNCHANGED err
                ELSE IF IsFailed(status)
                THEN /\ V32Raises("RuntimeError: failed")
                     /\ UNCHANGED raw_text
                ELSE /\ pc' = "v32_loop"
                     /\ UNCHANGED <<err, raw_text, v32_result>>
    /\ UNCHANGED <<inputs, image_bytes, syncVars, v32_posts, submitted, op_loc,
                   polls, sleeps, pollHist, cleanVars, outVars>>

\* the loop ran out: raise TimeoutError
V32Timeout ==
    /\ pc = "v32_loop"
    /\ ~LoopContinues(sleeps)
    /\ V32Raises("TimeoutError")
    /\ UNCHANGED <<inputs, image_bytes, syncVars, v32_posts, submitted, op_loc,
                   polls, sleeps, result, pollHist, raw_text, cleanVars, outVars>>

\* ------------------------------------------------------------------------
\* main, after azure_handwriting_ocr returned
\* ------------------------------------------------------------------------
\* raw_path.write_text(raw_text); if args.no_clean: print, return
WriteRaw ==
    /\ pc = "write_raw"
    /\ written' = WriteText(written, RawName, raw_text)
    /\ IF WriteTextRaises(raw_text) # "none"
       THEN /\ Raise(WriteTextRaises(raw_text))
            /\ UNCHANGED stdout
       ELSE /\ UNCHANGED err
            /\ IF SkipsCleanup(no_clean)
               THEN /\ stdout' = Append(stdout, RawName)
                    /\ pc' = "done"
               ELSE /\ pc' = "cleanup"
                    /\ UNCHANGED stdout
    /\ UNCHANGED <<inputs, image_bytes, syncVars, v32Vars, raw_text, cleanVars>>

\* cleaned = openai_cleanup(raw_text)
Cleanup ==
    /\ pc = "cleanup"
    /\ cleanup_calls' = cleanup_calls + 1
    /\ IF CleanupDisabled(OPENAI_API_KEY(env_key))
       THEN /\ cleaned' = raw_text
            /\ pc' = "write_clean"
            /\ UNCHANGED <<openai_calls, err>>
       ELSE /\ openai_calls' = openai_calls + 1
            /\ \E resp \in CleanupResponses :
                IF resp.kind = "ok"
                THEN /\ cleaned' = strip(resp.text)
                     /\ pc' = "write_clean"
                     /\ UNCHANGED err
                ELSE /\ Raise(resp.kind)
                     /\ UNCHANGED cleaned
    /\ UNCHANGED <<inputs, image_bytes, syncVars, v32Vars, raw_text, outVars>>

\* clean_path.write_text(cleaned); the two prints
WriteClean ==
    /\ pc = "write_clean"
    /\ written' = WriteText(written, CleanName, cleaned)
    /\ IF WriteTextRaises(cleaned) # "none"
       THEN /\ Raise(WriteTextRaises(cleaned))
            /\ UNCHANGED stdout
       ELSE /\ stdout' = stdout \o <<RawName, CleanName>>
            /\ pc' = "done"
            /\ UNCHANGED err
    /\ UNCHANGED <<inputs, image_bytes, syncVars, v32Vars, raw_text, cleanVars>>

Next ==
    \/ ReadImage
    \/ SyncPost
    \/ SyncReturn
    \/ V32Submit
    \/ V32Poll
    \/ V32Status
    \/ V32Timeout
    \/ WriteRaw
    \/ Cleanup
    \/ WriteClean

Spec == Init /\ [][Next]_vars

TypeOK ==
    /\ pc \in {"main", "sync_post", "sync_resp", "v32_submit", "v32_loop",
               "v32_status", "write_raw", "cleanup", "write_clean", "done", "error"}
    /\ polls \in 0..MaxPolls
    /\ sleeps \in {polls, polls + 1}
    /\ Len(sync_posts) <= 1
    /\ Len(v32_posts) <= 1
    /\ DOMAIN written \subseteq {RawName, CleanName}

\* ------------------------------------------------------------------------
\* azure_read_v32 called on its own, as a caller of the function would
\* ------------------------------------------------------------------------
InitV32 ==
    /\ pc = "v32_submit"
    /\ image_file \in ImageFiles \ {"<missing>"}
    /\ image_bytes = image_file
    /\ no_clean = TRUE
    /\ env_key = "<unset>"
    /\ r = NoSyncResp
    /\ sync_posts = <<>>
    /\ sync_result = "none"
    /\ sync_text = None
    /\ sync_content = None
    /\ v32_posts = <<>>
    /\ submitted = "none"
    /\ op_loc = None
    /\ polls = 0
    /\ sleeps = 0
    /\ result = NoPollResp
    /\ waited = 0
    /\ term_at = 0
    /\ term_status = ""
    /\ v32_result = "none"
    /\ raw_text = None
    /\ cleaned = None
    /\ cleanup_calls = 0
    /\ openai_calls = 0
    /\ written = NoFiles
    /\ stdout = <<>>
    /\ err = "none"

NextV32 ==
    \/ V32Submit
    \/ V32Poll
    \/ V32Status
    \/ V32Timeout

\* The client is sequential code: it takes its next step whenever it has
\* one, and every request it makes carries timeout=60, so each returns or
\* raises.
FairV32 == InitV32 /\ [][NextV32]_vars /\ WF_vars(NextV32)

\* ------------------------------------------------------------------------
\* Vocabulary of the properties
\* ------------------------------------------------------------------------
\* azure_read_v32 has been entered
V32Invoked == v32_posts # <<>>

\* azure_read_v32 is running, between its submission and its end
V32Polling == pc \in {"v32_loop", "v32_status"}

\* azure_read_v32 has returned or raised
V32Ended == v32_result # "none"

V32Errors ==
    {"ConnectionError", "HTTPError", "RuntimeError: missing Operation-Location",
     "RuntimeError: failed", "TimeoutError", "MissingSchema", "InvalidSchema",
     "InvalidURL", "ValueError", "UnicodeEncodeError", "JSONDecodeError",
     "AttributeError"}

\* the synchronous call raised an HTTP error, or returned the empty string
SyncFellThrough ==
    \/ sync_result = "HTTPError"
    \/ sync_result = "returned" /\ sync_text = <<>>

\* the recognized lines of a result, all pages in order
LineTextsOf(pages) == AllLines(pages)

\* the same, without the lines whose text is empty
NonEmptyLinesOf(pages) == SelectSeq(AllLines(pages), LAMBDA t : t # <<>>)

\* the step in which azure_read_v32 handles a poll answered "succeeded"
HandlesSucceeded == pc = "v32_status" /\ Lower(result.status) = "succeeded"

\* ------------------------------------------------------------------------
\* C1
\* ------------------------------------------------------------------------
\* C1 as stated: whenever the synchronous response (HTTP success) carries a
\* non-empty readResult.content, azure_read_v32 is never invoked (no
\* submission, no poll) and the orchestrator returns that content trimmed.
C1_AsStated ==
    (sync_result = "returned" /\ Truthy(sync_content)) =>
        /\ ~V32Invoked
        /\ polls = 0
        /\ raw_text # None => raw_text = strip(sync_content)

\* C1, amended: whenever the synchronous response (HTTP success) carries a
\* readResult.content that is non-empty after trimming surrounding
\* whitespace, azure_read_v32 is never invoked (no submission, no poll) and
\* the orchestrator returns that content trimmed.
C1_ContentReturnedTrimmed ==
    (sync_result = "returned" /\ Truthy(sync_content)
        /\ strip(sync_content) # <<>>) =>
        /\ ~V32Invoked
        /\ polls = 0
        /\ sleeps = 0
        /\ raw_text = strip(sync_content)
        /\ pc \notin {"v32_submit", "v32_loop", "v32_status"}

C1_Witness ==
    /\ pc = "done"
    /\ sync_content = <<160, 97, 13, NL, 98, 133, NL>>
    /\ raw_text = <<97, 13, NL, 98>>
    /\ ~V32Invoked

\* ------------------------------------------------------------------------
\* C2
\* ------------------------------------------------------------------------
\* C2 as stated: a run of main that ends with an unhandled error, at any
\* stage, has written no output file.
C2_AsStated == pc = "error" => written = NoFiles

\* C2, amended: a run of main that ends with an unhandled error in the OCR
\* stage (either client) has written no output file; a run that ends with
\* an unhandled error in the cleanup call has written <stem>.raw.txt, with
\* the OCR text, and no <stem>.clean.md; a run that ends because a text
\* cannot be encoded as UTF-8 when it is written leaves the file it was
\* writing empty: <stem>.raw.txt alone, or <stem>.clean.md beside a
\* <stem>.raw.txt that holds the OCR text.
C2_NoCleanFileOnError ==
    pc = "error" =>
        IF raw_text = None
        THEN written = NoFiles /\ cleanup_calls = 0
        ELSE IF err = "OpenAIError"
        THEN /\ cleanup_calls = 1
             /\ DOMAIN written = {RawName}
             /\ written[RawName] = raw_text
        ELSE /\ err = "UnicodeEncodeError"
             /\ IF cleanup_calls = 0
                THEN /\ ~Encodable(raw_text)
                     /\ DOMAIN written = {RawName}
                     /\ written[RawName] = <<>>
                ELSE /\ ~Encodable(cleaned)
                     /\ DOMAIN written = {RawName, CleanName}
                     /\ written[RawName] = raw_text
                     /\ written[CleanName] = <<>>

C2_Witness ==
    /\ pc = "error"
    /\ err = "OpenAIError"
    /\ DOMAIN written = {RawName}
    /\ written[RawName] = <<97>>

\* ------------------------------------------------------------------------
\* C3
\* ------------------------------------------------------------------------
\* C3: when the synchronous call raised an HTTP error or returned the empty
\* string, azure_read_v32 is invoked exactly once, on the bytes read from the
\* image (the bytes the synchronous call was given), and the run's outcome
\* is the client's: its text (an error that ends the run after that is one
\* of the cleanup call or of a file write), or its error raised to the top
\* with nothing returned and nothing written.
C3_FallbackOutcome ==
    SyncFellThrough =>
        \/ pc = "v32_submit" /\ ~V32Invoked
        \/ /\ pc # "v32_submit"
           /\ v32_posts = <<image_bytes>>
           /\ sync_posts = <<image_bytes>>
           /\ image_bytes = image_file
           /\ \/ V32Polling /\ ~V32Ended /\ raw_text = None /\ err = "none"
              \/ /\ v32_result = "returned"
                 /\ raw_text # None
                 /\ pc \in {"write_raw", "cleanup", "write_clean", "done", "error"}
                 /\ pc = "error" => err \in {"OpenAIError", "UnicodeEncodeError"}
              \/ /\ v32_result \in V32Errors
                 /\ pc = "error"
                 /\ err = v32_result
                 /\ raw_text = None
                 /\ written = NoFiles

C3_Witness ==
    /\ sync_result = "returned"
    /\ sync_text = <<>>
    /\ v32_posts = <<"img2">>
    /\ v32_result = "returned"
    /\ raw_text = <<97>>
    /\ pc = "done"

\* ------------------------------------------------------------------------
\* C4
\* ------------------------------------------------------------------------
\* C4: azure_read_v32 is invoked only after a synchronous HTTP error or an
\* empty synchronous result; any other exception of the synchronous call
\* (transport failure or timeout, undecodable or misshapen body) ends the run
\* with that exception, azure_read_v32 not invoked; and every exception of
\* azure_read_v32 or of the cleanup call ends the run with that exception.
C4_OnlyHttpErrorOrEmptyRecovered ==
    /\ V32Invoked => SyncFellThrough
    /\ sync_result \in {"ConnectionError", "JSONDecodeError", "AttributeError"} =>
        /\ pc = "error"
        /\ err = sync_result
        /\ ~V32Invoked
        /\ polls = 0
        /\ raw_text = None
    /\ v32_result \in V32Errors => pc = "error" /\ err = v32_result
    /\ (sync_result \notin {"none", "returned", "HTTPError"}
            \/ v32_result \notin {"none", "returned"})
        => pc = "error"
    /\ pc = "error" => err # "none"
    /\ pc # "error" => err = "none"

C4_Witness ==
    /\ pc = "error"
    /\ sync_result = "ConnectionError"
    /\ err = "ConnectionError"
    /\ sync_posts = <<"img1">>
    /\ ~V32Invoked

\* ------------------------------------------------------------------------
\* C5
\* ------------------------------------------------------------------------
\* C5 as stated: when the first k polls (0 <= k < 60) were answered with a
\* status that is neither succeeded nor failed and poll k+1 is answered
\* "succeeded", azure_read_v32 returns at that poll, k+1 polls made and no
\* more, and the text it returns is the recognized lines of that response,
\* all pages in order, joined by newlines.
C5_AsStated ==
    [][(pc = "v32_status" /\ result.status = "succeeded") =>
          /\ pc' = "write_raw"
          /\ polls' = polls
          /\ polls = waited + 1
          /\ raw_text' = JoinNL(LineTextsOf(result.readResults))]_vars

\* C5, amended: when the first k polls (0 <= k < 60) were answered with a
\* status that is neither succeeded nor failed and poll k+1 is answered
\* "succeeded", azure_read_v32 returns at that poll, k+1 polls made and no
\* more, and the text it returns is the recognized lines of that response
\* whose text is not empty, all pages in order, joined by newlines, and the
\* whole trimmed of surrounding whitespace.
C5_ReturnsAtFirstSucceeded ==
    /\ [][HandlesSucceeded =>
            /\ pc' = "write_raw"
            /\ v32_result' = "returned"
            /\ polls' = polls
            /\ polls = waited + 1
            /\ waited < 60
            /\ raw_text' = strip(JoinNL(NonEmptyLinesOf(result.readResults)))]_vars
    /\ [](v32_result = "returned" =>
            /\ polls = waited + 1
            /\ sleeps = polls
            /\ term_at = polls
            /\ term_status = "succeeded"
            /\ ~V32Polling)

C5_Witness ==
    /\ v32_result = "returned"
    /\ waited = 59
    /\ polls = 60
    /\ raw_text = <<98, NL, 97>>
    /\ pc = "write_raw"

C7_MissingOperationLocation ==
    (submitted = "ok" /\ (op_loc = None \/ op_loc = <<>>)) =>
        /\ pc = "error"
        /\ err = "RuntimeError: missing Operation-Location"
        /\ v32_result = err
        /\ polls = 0
        /\ sleeps = 0
        /\ raw_text = None

C7_Witness ==
    /\ submitted = "ok"
    /\ op_loc = <<>>
    /\ pc = "error"
    /\ err = "RuntimeError: missing Operation-Location"
    /\ polls = 0

\* ------------------------------------------------------------------------
\* C8
\* ------------------------------------------------------------------------
\* C8: once a poll was answered succeeded or failed, no later poll is made;
\* the first poll answered failed ends azure_read_v32 with the "failed"
\* error at once, and no text is returned in that run.
C8_TerminalStatusEndsPolling ==
    term_at # 0 =>
        /\ polls = term_at
        /\ sleeps = term_at
        /\ pc # "v32_loop"
        /\ waited = term_at - 1
        /\ (term_status = "failed" /\ pc # "v32_status") =>
              /\ pc = "error"
              /\ err = "RuntimeError: failed"
              /\ v32_result = "RuntimeError: failed"
              /\ raw_text = None
              /\ written = NoFiles
        /\ (term_status = "succeeded" /\ pc # "v32_status") =>
              v32_result = "returned"

C8_Witness ==
    /\ term_status = "failed"
    /\ term_at = 3
    /\ polls = 3
    /\ pc = "error"
    /\ err = "RuntimeError: failed"

\* ------------------------------------------------------------------------
\* C9
\* ------------------------------------------------------------------------
\* C9: with --no-clean, whatever the cleanup credential, openai_cleanup is
\* never called, no request goes to the cleanup service, <stem>.clean.md is
\* never written, and a run that ends normally has written <stem>.raw.txt,
\* with the OCR text, and nothing else.
C9_NoCleanWritesRawOnly ==
    no_clean =>
        /\ cleanup_calls = 0
        /\ openai_calls = 0
        /\ CleanName \notin DOMAIN written
        /\ cleaned = None
        /\ pc \notin {"cleanup", "write_clean"}
        /\ pc = "done" =>
              /\ DOMAIN written = {RawName}
              /\ written[RawName] = raw_text
              /\ stdout = <<RawName>>

C9_Witness ==
    /\ no_clean
    /\ env_key = "sk-key"
    /\ pc = "done"
    /\ DOMAIN written = {RawName}
    /\ written[RawName] = <<97>>

\* ------------------------------------------------------------------------
\* C10
\* ------------------------------------------------------------------------
\* C10: with OPENAI_API_KEY empty or unset and --no-clean not given, no
\* request goes to the cleanup service, the cleanup stage raises nothing,
\* and a run that ends normally has written to <stem>.clean.md the very text
\* it wrote to <stem>.raw.txt.
C10_CleanEqualsRawWithoutKey ==
    (env_key \in {"", "<unset>"} /\ ~no_clean) =>
        /\ openai_calls = 0
        /\ cleanup_calls > 0 => pc # "error"
        /\ pc = "write_clean" => cleaned = raw_text
        /\ pc = "done" =>
              /\ DOMAIN written = {RawName, CleanName}
              /\ written[CleanName] = written[RawName]
              /\ written[RawName] = raw_text
              /\ cleanup_calls = 1

C10_Witness ==
    /\ env_key = "<unset>"
    /\ ~no_clean
    /\ pc = "done"
    /\ CleanName \in DOMAIN written
    /\ written[CleanName] = <<98, NL, 97>>
    /\ written[RawName] = <<98, NL, 97>>

====
